---- MODULE Spec2Model ----
(***************************************************************************)
(* httpsuite: the request pipeline (ParseRequest), the response envelope   *)
(* writer (SendResponse / writeProblemDetail), the validation adapter and  *)
(* the problem-type registry, as one state machine.                        *)
(*                                                                         *)
(* One request is in flight at a time.  A handler either follows the       *)
(* documented protocol (ParseRequest, then SendResponse on success) or     *)
(* calls SendResponse directly with arbitrary arguments.                   *)
(***************************************************************************)
EXTENDS Integers, Sequences, FiniteSets, TLC

VARIABLES
    pc,              \* position of the handler / of ParseRequest
    body,            \* r.Body of the request in flight
    extract,         \* the paramExtractor: key -> value (a string of characters)
    pathParams,      \* the pathParams argument
    request,         \* ParseRequest's local `request` (T = *TestRequest)
    idx,             \* 1-based position of the range loop over pathParams
    result,          \* what ParseRequest returned: [val, err]
    w,               \* the http.ResponseWriter of the request in flight
    log,             \* lines given to log.Printf
    calls,           \* history of the calls made while serving the request
    problemBaseURL,  \* registry: base URL
    errorTypePaths,  \* registry: category -> path
    mu,              \* registry: the sync.RWMutex, [writer, readers]
    goroutines,      \* goroutines calling the registry: position and locals
    lastResolved,    \* the resolution before `returned`, if no configuration
                     \* call ran during it or since
    returned         \* the last GetProblemTypeURL call that returned

vars == <<pc, body, extract, pathParams, request, idx, result, w, log, calls,
          problemBaseURL, errorTypePaths, mu, goroutines, lastResolved,
          returned>>

(***************************************************************************)
(* Bounds of the model.                                                    *)
(***************************************************************************)
MaxParams == 2       \* longest pathParams list
MaxId == 1           \* body ids range over 0..MaxId
MaxGoroutines == 2   \* goroutines calling the registry concurrently

(***************************************************************************)
(* Program constants.                                                      *)
(***************************************************************************)
StatusOK == 200
StatusBadRequest == 400
StatusNotFound == 404
StatusInternalServerError == 500

BlankUrl == "about:blank"
ProblemContentType == "application/problem+json; charset=utf-8"
JSONContentType == "application/json; charset=utf-8"

(***************************************************************************)
(* Go values.  A value is a record tagged by its kind k.                   *)
(***************************************************************************)
NilValue == [k |-> "nil"]
GoInt(n) == [k |-> "int", n |-> n]
GoString(s) == [k |-> "string", s |-> s]
GoSlice(items) == [k |-> "slice", items |-> items]
GoStruct(f) == [k |-> "struct", f |-> f]
GoChan == [k |-> "chan"]

\* encoding/json refuses channels (json: unsupported type).
RECURSIVE Encodable(_)
Encodable(v) ==
    CASE v.k = "chan" -> FALSE
      [] v.k = "slice" -> \A j \in 1..Len(v.items) : Encodable(v.items[j])
      [] OTHER -> TRUE

\* What `omitempty` omits: nil, 0, "", an empty slice; never a struct.
isEmptyValue(v) ==
    CASE v.k = "nil" -> TRUE
      [] v.k = "int" -> v.n = 0
      [] v.k = "string" -> v.s = ""
      [] v.k = "slice" -> Len(v.items) = 0
      [] OTHER -> FALSE

UnsupportedTypeError == "json: unsupported type: chan int"

(***************************************************************************)
(* Meta and the success envelope Response[T].                              *)
(***************************************************************************)
MetaFields == {"page", "page_size", "total_pages", "total_items"}

\* A *Meta is NilValue or a function MetaFields -> Int.
EncodeMeta(meta) ==
    LET present == {f \in MetaFields : meta[f] # 0}
    IN  [f \in present |-> meta[f]]

\* Mutant of EncodeResponse: `omitempty` is missing on the data field.
EncodeResponse_NoOmitEmptyData(data, meta) ==
    IF ~Encodable(data)
    THEN [err |-> UnsupportedTypeError, json |-> <<>>]
    ELSE LET keys == {"data"} \cup (IF meta = NilValue THEN {} ELSE {"meta"})
         IN  [err |-> "",
              json |-> [key \in keys |->
                          IF key = "data" THEN data ELSE EncodeMeta(meta)]]

\* json.NewEncoder(&buffer).Encode(response): [err, json].
EncodeResponse(data, meta) ==
    IF ~Encodable(data)
    THEN [err |-> UnsupportedTypeError, json |-> <<>>]
    ELSE LET keys == (IF isEmptyValue(data) THEN {} ELSE {"data"})
                     \cup (IF meta = NilValue THEN {} ELSE {"meta"})
         IN  [err |-> "",
              json |-> [key \in keys |->
                          IF key = "data" THEN data ELSE EncodeMeta(meta)]]

(***************************************************************************)
(* ProblemDetails.                                                         *)
(***************************************************************************)
NoExtensions == <<>>

\* NewProblemDetails of the version ParseRequest is written against.
NewProblemDetailsV1(status, title, detail) ==
    [Type |-> BlankUrl, Title |-> title, Status |-> status, Detail |-> detail,
     Instance |-> "", Extensions |-> NoExtensions]

\* Mutant of NewProblemDetails: an empty problemType is kept as it is.
NewProblemDetails_NoDefault(status, problemType, title, detail) ==
    [Type |-> problemType,
     Title |-> title, Status |-> status, Detail |-> detail,
     Instance |-> "", Extensions |-> NoExtensions]

NewProblemDetails(status, problemType, title, detail) ==
    [Type |-> IF problemType = "" THEN BlankUrl ELSE problemType,
     Title |-> title, Status |-> status, Detail |-> detail,
     Instance |-> "", Extensions |-> NoExtensions]

\* json encoding of a ProblemDetails by its struct tags: [err, json].
EncodeProblem(problem) ==
    IF \E e \in DOMAIN problem.Extensions : ~Encodable(problem.Extensions[e])
    THEN [err |-> UnsupportedTypeError, json |-> <<>>]
    ELSE LET keys == {"type", "title", "status"}
                     \cup (IF problem.Detail = "" THEN {} ELSE {"detail"})
                     \cup (IF problem.Instance = "" THEN {} ELSE {"instance"})
                     \cup (IF DOMAIN problem.Extensions = {} THEN {}
                           ELSE {"extensions"})
         IN  [err |-> "",
              json |-> [key \in keys |->
                  CASE key = "type" -> GoString(problem.Type)
                    [] key = "title" -> GoString(problem.Title)
                    [] key = "status" -> GoInt(problem.Status)
                    [] key = "detail" -> GoString(problem.Detail)
                    [] key = "instance" -> GoString(problem.Instance)
                    [] OTHER -> GoStruct(problem.Extensions)]]

(***************************************************************************)
(* Problem-type registry.                                                  *)
(***************************************************************************)
DefaultErrorTypePaths ==
    [c \in {"validation_error", "not_found_error", "server_error",
            "bad_request_error"} |->
        CASE c = "validation_error" -> "/errors/validation-error"
          [] c = "not_found_error" -> "/errors/not-found"
          [] c = "server_error" -> "/errors/server-error"
          [] OTHER -> "/errors/bad-request"]

\* Mutant of getProblemBaseURL: the sentinel is returned like any base URL.
getProblemBaseURL_KeepsSentinel == problemBaseURL

getProblemBaseURL ==
    IF problemBaseURL = BlankUrl THEN "" ELSE problemBaseURL

GetProblemTypeURL(errorType) ==
    IF errorType \in DOMAIN errorTypePaths
    THEN getProblemBaseURL \o errorTypePaths[errorType]
    ELSE BlankUrl

(***************************************************************************)
(* http.ResponseWriter: the header map, the status line once written, the  *)
(* body bytes accepted, and the calls made on it in order.  status 0 means *)
(* that the status line has not been written yet.                          *)
(***************************************************************************)
NewResponseWriter(broken) ==
    [header |-> "", status |-> 0, body |-> <<>>, events |-> <<>>,
     broken |-> broken]

\* w.Header().Set("Content-Type", ct)
HeaderSet(rw, ct) ==
    [rw EXCEPT !.events = Append(@, [op |-> "Header.Set", ct |-> ct]),
               !.header = IF rw.status = 0 THEN ct ELSE @]

\* w.WriteHeader(code): only the first call writes the status line.
WriteHeader(rw, code) ==
    [rw EXCEPT !.events = Append(@, [op |-> "WriteHeader", code |-> code]),
               !.status = IF @ = 0 THEN code ELSE @]

\* w.Write(b): [w, err]; a broken connection refuses the bytes.
Write(rw, b) ==
    [w |-> [rw EXCEPT !.events = Append(@, [op |-> "Write", body |-> b]),
                      !.status = IF @ = 0 THEN StatusOK ELSE @,
                      !.body = IF rw.broken THEN @ ELSE Append(@, b)],
     err |-> rw.broken]

(***************************************************************************)
(* Response envelope writer.  io is the pair [w, log].                     *)
(***************************************************************************)
LogEncodeProblem == "Failed to encode problem details"
LogWriteBody == "Failed to write response body"
LogEncodeResponse == "Error writing response"

\* Mutant of writeProblemDetail: the status line is the code argument.
writeProblemDetail_UsesCode(io, code, problem) ==
    LET w1 == HeaderSet(io.w, ProblemContentType)
        w2 == WriteHeader(w1, code)
        enc == EncodeProblem(problem)
    IN  IF enc.err # ""
        THEN [w |-> w2, log |-> Append(io.log, LogEncodeProblem)]
        ELSE LET wr == Write(w2, enc.json)
             IN  [w |-> wr.w,
                  log |-> IF wr.err THEN Append(io.log, LogEncodeProblem)
                          ELSE io.log]

writeProblemDetail(io, code, problem) ==
    LET w1 == HeaderSet(io.w, ProblemContentType)
        w2 == WriteHeader(w1, problem.Status)
        enc == EncodeProblem(problem)
    IN  IF enc.err # ""
        THEN [w |-> w2, log |-> Append(io.log, LogEncodeProblem)]
        ELSE LET wr == Write(w2, enc.json)
             IN  [w |-> wr.w,
                  log |-> IF wr.err THEN Append(io.log, LogEncodeProblem)
                          ELSE io.log]

\* Mutant of SendResponse: the error branch starts above 400.
SendResponse_OffByOne(io, code, data, problem, meta) ==
    IF code > 400 /\ problem # NilValue
    THEN writeProblemDetail(io, code, problem)
    ELSE LET enc == EncodeResponse(data, meta)
         IN  IF enc.err # ""
             THEN LET io1 == [io EXCEPT !.log = Append(@, LogEncodeResponse)]
                      internalError ==
                          NewProblemDetails(StatusInternalServerError,
                                            GetProblemTypeURL("server_error"),
                                            "Internal Server Error", enc.err)
                  IN  writeProblemDetail(io1, StatusInternalServerError,
                                         internalError)
             ELSE LET w1 == HeaderSet(io.w, JSONContentType)
                      w2 == WriteHeader(w1, code)
                      wr == Write(w2, enc.json)
                  IN  [w |-> wr.w,
                       log |-> IF wr.err THEN Append(io.log, LogWriteBody)
                               ELSE io.log]

\* Mutant of SendResponse: the status line is written before and after encoding.
SendResponse_DoubleWriteHeader(io, code, data, problem, meta) ==
    IF code >= 400 /\ problem # NilValue
    THEN writeProblemDetail(io, code, problem)
    ELSE LET enc == EncodeResponse(data, meta)
         IN  IF enc.err # ""
             THEN LET io1 == [io EXCEPT !.log = Append(@, LogEncodeResponse)]
                      internalError ==
                          NewProblemDetails(StatusInternalServerError,
                                            GetProblemTypeURL("server_error"),
                                            "Internal Server Error", enc.err)
                  IN  writeProblemDetail(io1, StatusInternalServerError,
                                         internalError)
             ELSE LET w1 == HeaderSet(io.w, JSONContentType)
                      w2 == WriteHeader(WriteHeader(w1, code), code)
                      wr == Write(w2, enc.json)
                  IN  [w |-> wr.w,
                       log |-> IF wr.err THEN Append(io.log, LogWriteBody)
                               ELSE io.log]

\* Mutant of SendResponse: the fallback problem keeps the requested status.
SendResponse_FallbackKeepsCode(io, code, data, problem, meta) ==
    IF code >= 400 /\ problem # NilValue
    THEN writeProblemDetail(io, code, problem)
    ELSE LET enc == EncodeResponse(data, meta)
         IN  IF enc.err # ""
             THEN LET io1 == [io EXCEPT !.log = Append(@, LogEncodeResponse)]
                      internalError ==
                          NewProblemDetails(code,
                                            GetProblemTypeURL("server_error"),
                                            "Internal Server Error", enc.err)
                  IN  writeProblemDetail(io1, StatusInternalServerError,
                                         internalError)
             ELSE LET w1 == HeaderSet(io.w, JSONContentType)
                      w2 == WriteHeader(w1, code)
                      wr == Write(w2, enc.json)
                  IN  [w |-> wr.w,
                       log |-> IF wr.err THEN Append(io.log, LogWriteBody)
                               ELSE io.log]

SendResponse(io, code, data, problem, meta) ==
    IF code >= 400 /\ problem # NilValue
    THEN writeProblemDetail(io, code, problem)
    ELSE LET enc == EncodeResponse(data, meta)
         IN  IF enc.err # ""
             THEN LET io1 == [io EXCEPT !.log = Append(@, LogEncodeResponse)]
                      internalError ==
                          NewProblemDetails(StatusInternalServerError,
                                            GetProblemTypeURL("server_error"),
                                            "Internal Server Error", enc.err)
                  IN  writeProblemDetail(io1, StatusInternalServerError,
                                         internalError)
             ELSE LET w1 == HeaderSet(io.w, JSONContentType)
                      w2 == WriteHeader(w1, code)
                      wr == Write(w2, enc.json)
                  IN  [w |-> wr.w,
                       log |-> IF wr.err THEN Append(io.log, LogWriteBody)
                               ELSE io.log]

(***************************************************************************)
(* The request target of the tests: TestRequest{ID int, Name string} with  *)
(* tags ID `required,gt=0`, Name `required`.  A *TestRequest is NilValue   *)
(* or a record [ID, Name].                                                 *)
(***************************************************************************)
ZeroTestRequest == [ID |-> 0, Name |-> ""]

\* strconv.Atoi on a string given as its characters: [ok, n].
DigitValue(c) ==
    CASE c = "0" -> 0 [] c = "1" -> 1 [] c = "2" -> 2 [] c = "3" -> 3
      [] c = "4" -> 4 [] c = "5" -> 5 [] c = "6" -> 6 [] c = "7" -> 7
      [] c = "8" -> 8 [] c = "9" -> 9 [] OTHER -> -1

RECURSIVE DigitsValue(_)
DigitsValue(s) ==
    IF Len(s) = 0 THEN 0
    ELSE 10 * DigitsValue(SubSeq(s, 1, Len(s) - 1)) + DigitValue(s[Len(s)])

Atoi(s) ==
    LET signed == Len(s) > 0 /\ s[1] \in {"-", "+"}
        digits == IF signed THEN Tail(s) ELSE s
    IN  IF Len(digits) = 0 \/ \E j \in 1..Len(digits) : DigitValue(digits[j]) < 0
        THEN [ok |-> FALSE, n |-> 0]
        ELSE [ok |-> TRUE,
              n |-> IF signed /\ s[1] = "-" THEN 0 - DigitsValue(digits)
                    ELSE DigitsValue(digits)]

\* strings.ToLower on the parameter names in use.
ToLower(name) ==
    CASE name = "ID" -> "id" [] name = "Id" -> "id" [] OTHER -> name

\* Mutant of SetParam: an ID the body already supplied is kept.
SetParam_KeepsExisting(req, fieldName, value) ==
    IF ToLower(fieldName) = "id"
    THEN LET a == Atoi(value)
         IN  IF ~a.ok THEN [err |-> "invalid id", req |-> req]
             ELSE [err |-> "",
                   req |-> IF req.ID # 0 THEN req
                           ELSE [req EXCEPT !.ID = a.n]]
    ELSE [err |-> "", req |-> req]

\* (*TestRequest).SetParam: [err, req].
SetParam(req, fieldName, value) ==
    IF ToLower(fieldName) = "id"
    THEN LET a == Atoi(value)
         IN  IF ~a.ok THEN [err |-> "invalid id", req |-> req]
             ELSE [err |-> "", req |-> [req EXCEPT !.ID = a.n]]
    ELSE [err |-> "", req |-> req]

\* json.NewDecoder(r.Body).Decode(&request): [err, val].
Decode(b) ==
    CASE b.kind = "Empty" -> [err |-> "EOF", val |-> NilValue]
      [] b.kind = "Malformed" ->
           [err |-> "invalid character 'i' looking for beginning of object key string",
            val |-> NilValue]
      [] b.kind = "TypeMismatch" ->
           [err |-> "json: cannot unmarshal string into Go struct field TestRequest.id of type int",
            val |-> ZeroTestRequest]
      [] b.kind = "Null" -> [err |-> "", val |-> NilValue]
      [] OTHER -> [err |-> "", val |-> [ID |-> b.id, Name |-> b.name]]

\* Mutant of isRequestNil: only `i == nil` is tested, which a nil pointer held
\* in an interface does not satisfy.
isRequestNil_InterfaceOnly(req) == FALSE

isRequestNil(req) == req = NilValue

(***************************************************************************)
(* Validation adapter.                                                     *)
(***************************************************************************)
\* The struct types under validation: their fields in declaration order, each
\* with the tags of its `validate` tag in the order they are written.
\* TestRequest{ID `required,gt=0`, Name `required`} and
\* TestValidationRequest{Name `required`, Age `required,min=18`}.
TestRequestFields ==
    <<[Field |-> "ID", Tags |-> <<"required", "gt">>],
      [Field |-> "Name", Tags |-> <<"required">>]>>

TestValidationRequestFields ==
    <<[Field |-> "Name", Tags |-> <<"required">>],
      [Field |-> "Age", Tags |-> <<"required", "min">>]>>

MinAge == 18

StructFields(req) ==
    IF "Age" \in DOMAIN req THEN TestValidationRequestFields
    ELSE TestRequestFields

\* Whether a field's value violates one tag: required (not the zero value),
\* gt=0, min=18.
Violates(req, field, tag) ==
    CASE tag = "required" ->
           IF field = "Name" THEN req[field] = "" ELSE req[field] = 0
      [] tag = "gt" -> ~(req[field] > 0)
      [] OTHER -> ~(req[field] >= MinAge)

FailedTags(req, f) ==
    SelectSeq(f.Tags, LAMBDA tag : Violates(req, f.Field, tag))

\* The validator walks the fields in declaration order and leaves a field at
\* the first tag it fails.
RECURSIVE FieldErrorsOf(_, _)
FieldErrorsOf(req, fields) ==
    IF fields = <<>> THEN <<>>
    ELSE LET f == Head(fields)
             failed == FailedTags(req, f)
         IN  (IF failed = <<>> THEN <<>>
              ELSE <<[Field |-> f.Field, Tag |-> failed[1]]>>)
             \o FieldErrorsOf(req, Tail(fields))

RECURSIVE AllTagErrorsOf(_, _)
AllTagErrorsOf(req, fields) ==
    IF fields = <<>> THEN <<>>
    ELSE LET f == Head(fields)
             failed == FailedTags(req, f)
         IN  [j \in 1..Len(failed) |-> [Field |-> f.Field, Tag |-> failed[j]]]
             \o AllTagErrorsOf(req, Tail(fields))

\* Mutant of FieldErrors: every tag a field fails is reported.
FieldErrors_AllTags(req) == AllTagErrorsOf(req, StructFields(req))

\* Mutant of FieldErrors: validation stops at the first failing field.
FieldErrors_FirstFieldOnly(req) ==
    LET errs == FieldErrorsOf(req, StructFields(req))
    IN  IF errs = <<>> THEN errs ELSE <<errs[1]>>

\* validate.Struct on a struct or a non-nil pointer to one: the field errors.
FieldErrors(req) == FieldErrorsOf(req, StructFields(req))

\* validate.Struct(request): nil, a nil pointer and anything that is not a
\* struct give an *InvalidValidationError.
ValidateStruct(req) ==
    IF "k" \in DOMAIN req
    THEN [kind |-> "InvalidValidationError", errs |-> <<>>]
    ELSE IF FieldErrors(req) = <<>> THEN [kind |-> "nil", errs |-> <<>>]
    ELSE [kind |-> "ValidationErrors", errs |-> FieldErrors(req)]

formatValidationMessage(vErr) ==
    vErr.Field \o " failed " \o vErr.Tag \o " validation"

\* Mutant of NewValidationProblemDetails: only the first field error is kept.
NewValidationProblemDetails_FirstOnly(err) ==
    IF err.kind # "ValidationErrors"
    THEN NewProblemDetailsV1(StatusBadRequest, "Invalid Request",
                             "Invalid data format or structure")
    ELSE [Type |-> "https://example.com/validation-error",
          Title |-> "Validation Error",
          Status |-> StatusBadRequest,
          Detail |-> "One or more fields failed validation.",
          Instance |-> "",
          Extensions |->
            [e \in {"errors"} |->
               GoSlice(<<GoStruct([field |-> GoString(err.errs[1].Field),
                                   message |-> GoString(
                                       formatValidationMessage(err.errs[1]))])>>)]]

NewValidationProblemDetails(err) ==
    IF err.kind # "ValidationErrors"
    THEN NewProblemDetailsV1(StatusBadRequest, "Invalid Request",
                             "Invalid data format or structure")
    ELSE [Type |-> "https://example.com/validation-error",
          Title |-> "Validation Error",
          Status |-> StatusBadRequest,
          Detail |-> "One or more fields failed validation.",
          Instance |-> "",
          Extensions |->
            [e \in {"errors"} |->
               GoSlice([j \in 1..Len(err.errs) |->
                          GoStruct([field |-> GoString(err.errs[j].Field),
                                    message |-> GoString(
                                        formatValidationMessage(err.errs[j]))])])]]

IsRequestValid(req) ==
    LET err == ValidateStruct(req)
    IN  IF err.kind # "nil" THEN NewValidationProblemDetails(err) ELSE NilValue

(***************************************************************************)
(* Inputs.                                                                 *)
(***************************************************************************)
NoBody == [kind |-> "NoBody"]

Bodies ==
    {NoBody, [kind |-> "Empty"], [kind |-> "Malformed"],
     [kind |-> "TypeMismatch"], [kind |-> "Null"]}
    \cup {[kind |-> "Object", id |-> n, name |-> s] :
            n \in 0..MaxId, s \in {"", "Test"}}

ParamNames == {"ID", "name"}
IdValues == {<<>>, <<"7">>, <<"0">>, <<"x">>, <<"-", "5">>, <<"1", "2">>}
NameValues == {<<>>, <<"B", "o", "b">>}

\* A paramExtractor is a function of the request and the key.
Extractors ==
    {[n \in ParamNames |-> IF n = "ID" THEN a ELSE b] :
        a \in IdValues, b \in NameValues}

ParamLists == UNION {[1..n -> ParamNames] : n \in 0..MaxParams}

StatusCodes == {StatusOK, 399, StatusBadRequest, StatusNotFound,
                StatusInternalServerError}

DataValues ==
    {NilValue, GoInt(0), GoString("value"), GoStruct(ZeroTestRequest),
     GoStruct([ID |-> 7, Name |-> "Test"]), GoChan}

MetaValues ==
    {NilValue,
     [f \in MetaFields |-> 0],
     [f \in MetaFields |->
        CASE f = "page" -> 1 [] f = "page_size" -> 10
          [] f = "total_pages" -> 100 [] OTHER -> 0]}

\* Problems a caller hands to SendResponse.
ProblemValues ==
    {NilValue,
     NewProblemDetails(StatusNotFound, "", "Not Found",
                       "The requested resource was not found"),
     NewProblemDetails(StatusOK, "", "Not An Error", ""),
     [NewProblemDetails(StatusBadRequest, "", "Bad Extension", "")
        EXCEPT !.Extensions = [e \in {"trace"} |-> GoChan]]}

BaseURLs == {BlankUrl, "https://api.example.com"}

\* Arguments of SetProblemErrorTypePath: a new category, an override, a reset.
PathSettings ==
    {[errorType |-> "custom_error", path |-> "/errors/custom-error"],
     [errorType |-> "validation_error", path |-> "/errors/new-validation-error"],
     [errorType |-> "validation_error", path |-> "/errors/validation-error"]}

\* Arguments of SetProblemErrorTypePaths.
PathBatches ==
    {[c \in {"validation_error", "custom_error"} |->
        IF c = "validation_error" THEN "/errors/new-validation-error"
        ELSE "/errors/custom-error"]}

\* Targets handed to IsRequestValid directly: TestValidationRequest values,
\* nil, and a value that is not a struct.
ValidationTargets ==
    {[Name |-> s, Age |-> n] : s \in {"", "Alice"}, n \in {0, 17, 25}}
    \cup {NilValue, GoString("text")}

\* Categories a caller resolves: registered by default, registered on demand,
\* never registered.
ErrorTypes ==
    {"validation_error", "server_error", "custom_error", "unknown_error"}

(***************************************************************************)
(* State.                                                                  *)
(***************************************************************************)
NoResult == [done |-> FALSE, val |-> NilValue, err |-> ""]

NoExtractor == [n \in ParamNames |-> <<>>]

Goroutines == 1..MaxGoroutines
IdleGoroutine == [pc |-> "idle"]
NoResolution == [errorType |-> "", url |-> ""]
NoReturn == [errorType |-> ""]

Init ==
    /\ pc = "idle"
    /\ body = NoBody
    /\ extract = NoExtractor
    /\ pathParams = <<>>
    /\ request = NilValue
    /\ idx = 1
    /\ result = NoResult
    /\ w = NewResponseWriter(FALSE)
    /\ log = <<>>
    /\ calls = <<>>
    /\ problemBaseURL = BlankUrl
    /\ errorTypePaths = DefaultErrorTypePaths
    /\ mu = [writer |-> 0, readers |-> {}]
    /\ goroutines = [t \in Goroutines |-> IdleGoroutine]
    /\ lastResolved = NoResolution
    /\ returned = NoReturn

registry == <<problemBaseURL, errorTypePaths>>
inputs == <<body, extract, pathParams>>
sync == <<mu, goroutines, lastResolved, returned>>
pipeline == <<pc, body, extract, pathParams, request, idx, result, w, log,
              calls>>

SendResponseCall(code, data, problem, meta) ==
    [op |-> "SendResponse", code |-> code, data |-> data,
     problem |-> problem, meta |-> meta]

\* Mutant of Fail: the error is returned but no response is sent.
Fail_NoResponse(history, code, problem, err) ==
    /\ calls' = history
    /\ result' = [done |-> FALSE, val |-> NilValue, err |-> err]
    /\ pc' = "return"
    /\ UNCHANGED <<w, log>>

\* Mutant of Fail: the target assembled so far is returned with the error.
Fail_ReturnsRequest(history, code, problem, err) ==
    LET io == SendResponse([w |-> w, log |-> log], code, NilValue, problem,
                           NilValue)
    IN  /\ w' = io.w
        /\ log' = io.log
        /\ calls' = Append(history,
                           SendResponseCall(code, NilValue, problem, NilValue))
        /\ result' = [done |-> FALSE, val |-> request, err |-> err]
        /\ pc' = "return"

\* ParseRequest's `SendResponse[any](w, code, nil, problem, nil); return empty, err`
Fail(history, code, problem, err) ==
    LET io == SendResponse([w |-> w, log |-> log], code, NilValue, problem,
                           NilValue)
    IN  /\ w' = io.w
        /\ log' = io.log
        /\ calls' = Append(history,
                           SendResponseCall(code, NilValue, problem, NilValue))
        /\ result' = [done |-> FALSE, val |-> NilValue, err |-> err]
        /\ pc' = "return"

(***************************************************************************)
(* The problems ParseRequest builds.                                       *)
(***************************************************************************)
\* Mutant of InvalidRequestProblem: a fixed message replaces the decoder's.
InvalidRequestProblem_FixedDetail(err) ==
    NewProblemDetailsV1(StatusBadRequest, "Invalid Request",
                        "Invalid JSON format")

InvalidRequestProblem(err) ==
    NewProblemDetailsV1(StatusBadRequest, "Invalid Request", err)

\* Mutant of MissingParameterProblem: the detail does not name the key.
MissingParameterProblem_NoKey(key) ==
    NewProblemDetailsV1(StatusBadRequest, "Missing Parameter",
                        "Parameter not found in request")

MissingParameterProblem(key) ==
    NewProblemDetailsV1(StatusBadRequest, "Missing Parameter",
                        "Parameter " \o key \o " not found in request")

\* Mutant of ParameterErrorProblem: the underlying error is not attached.
ParameterErrorProblem_NoExtensions(key, err) ==
    NewProblemDetailsV1(StatusInternalServerError, "Parameter Error",
                        "Failed to set field " \o key)

ParameterErrorProblem(key, err) ==
    [NewProblemDetailsV1(StatusInternalServerError, "Parameter Error",
                         "Failed to set field " \o key)
       EXCEPT !.Extensions = [e \in {"error"} |-> GoString(err)]]

(***************************************************************************)
(* The handler of the examples: a request arrives.                         *)
(***************************************************************************)
HandlerStart ==
    /\ pc = "idle"
    /\ \E b \in Bodies, e \in Extractors, p \in ParamLists, broken \in BOOLEAN :
        /\ body' = b
        /\ extract' = e
        /\ pathParams' = p
        /\ w' = NewResponseWriter(broken)
    /\ request' = NilValue
    /\ idx' = 1
    /\ result' = NoResult
    /\ log' = <<>>
    /\ calls' = <<>>
    /\ pc' = "decode"
    /\ UNCHANGED registry
    /\ UNCHANGED sync

(***************************************************************************)
(* ParseRequest.                                                           *)
(***************************************************************************)
\* Mutant of ParseDecode: a decode failure is reported but the pipeline goes on.
ParseDecode_ContinuesAfterError ==
    /\ pc = "decode"
    /\ IF body = NoBody
       THEN /\ pc' = "init"
            /\ UNCHANGED <<request, result, w, log, calls>>
       ELSE LET d == Decode(body)
                history == Append(calls, [op |-> "Decode"])
                problem == InvalidRequestProblem(d.err)
                io == SendResponse([w |-> w, log |-> log], StatusBadRequest,
                                   NilValue, problem, NilValue)
            IN  /\ request' = d.val
                /\ pc' = "init"
                /\ IF d.err # ""
                   THEN /\ w' = io.w
                        /\ log' = io.log
                        /\ calls' = Append(history,
                               SendResponseCall(StatusBadRequest, NilValue,
                                                problem, NilValue))
                        /\ result' = [done |-> FALSE, val |-> NilValue,
                                      err |-> d.err]
                   ELSE /\ calls' = history
                        /\ UNCHANGED <<result, w, log>>
    /\ UNCHANGED <<inputs, idx, registry>>
    /\ UNCHANGED sync

\* Decode JSON body if present
ParseDecode ==
    /\ pc = "decode"
    /\ IF body = NoBody
       THEN /\ pc' = "init"
            /\ UNCHANGED <<request, result, w, log, calls>>
       ELSE LET d == Decode(body)
                history == Append(calls, [op |-> "Decode"])
            IN  /\ request' = d.val
                /\ IF d.err # ""
                   THEN Fail(history, StatusBadRequest,
                             InvalidRequestProblem(d.err),
                             d.err)
                   ELSE /\ pc' = "init"
                        /\ calls' = history
                        /\ UNCHANGED <<result, w, log>>
    /\ UNCHANGED <<inputs, idx, registry>>
    /\ UNCHANGED sync

\* Mutant of ParseInit: a fresh instance replaces the decoded target.
ParseInit_AlwaysAllocates ==
    /\ pc = "init"
    /\ request' = ZeroTestRequest
    /\ idx' = 1
    /\ pc' = "params"
    /\ UNCHANGED <<inputs, result, w, log, calls, registry>>
    /\ UNCHANGED sync

\* Ensure request object is properly initialized
ParseInit ==
    /\ pc = "init"
    /\ request' = IF isRequestNil(request) THEN ZeroTestRequest ELSE request
    /\ idx' = 1
    /\ pc' = "params"
    /\ UNCHANGED <<inputs, result, w, log, calls, registry>>
    /\ UNCHANGED sync

\* Mutant of ParseParam: the check for an empty value is missing.
ParseParam_NoMissingCheck ==
    /\ pc = "params"
    /\ IF idx > Len(pathParams)
       THEN /\ pc' = "validate"
            /\ UNCHANGED <<request, idx, result, w, log, calls>>
       ELSE LET key == pathParams[idx]
                value == extract[key]
                h1 == Append(calls, [op |-> "paramExtractor", key |-> key])
                h2 == Append(h1, [op |-> "SetParam", key |-> key,
                                  value |-> value, target |-> request])
                s == SetParam(request, key, value)
            IN  IF s.err # ""
                THEN /\ Fail(h2, StatusInternalServerError,
                             ParameterErrorProblem(key, s.err),
                             s.err)
                     /\ UNCHANGED <<request, idx>>
                ELSE /\ request' = s.req
                     /\ idx' = idx + 1
                     /\ calls' = h2
                     /\ UNCHANGED <<pc, result, w, log>>
    /\ UNCHANGED <<inputs, registry>>
    /\ UNCHANGED sync

\* Extract and set URL parameters: one iteration of the loop, or its end.
ParseParam ==
    /\ pc = "params"
    /\ IF idx > Len(pathParams)
       THEN /\ pc' = "validate"
            /\ UNCHANGED <<request, idx, result, w, log, calls>>
       ELSE LET key == pathParams[idx]
                value == extract[key]
                h1 == Append(calls, [op |-> "paramExtractor", key |-> key])
                h2 == Append(h1, [op |-> "SetParam", key |-> key,
                                  value |-> value, target |-> request])
                s == SetParam(request, key, value)
            IN  IF value = <<>>
                THEN /\ Fail(h1, StatusBadRequest,
                             MissingParameterProblem(key),
                             "missing parameter: " \o key)
                     /\ UNCHANGED <<request, idx>>
                ELSE IF s.err # ""
                THEN /\ Fail(h2, StatusInternalServerError,
                             ParameterErrorProblem(key, s.err),
                             s.err)
                     /\ UNCHANGED <<request, idx>>
                ELSE /\ request' = s.req
                     /\ idx' = idx + 1
                     /\ calls' = h2
                     /\ UNCHANGED <<pc, result, w, log>>
    /\ UNCHANGED <<inputs, registry>>
    /\ UNCHANGED sync

\* Validate the request
ParseValidate ==
    /\ pc = "validate"
    /\ LET validationErr == IsRequestValid(request)
           history == Append(calls, [op |-> "IsRequestValid",
                                     target |-> request])
       IN  IF validationErr # NilValue
           THEN Fail(history, StatusBadRequest, validationErr,
                     "validation error")
           ELSE /\ result' = [done |-> FALSE, val |-> request, err |-> ""]
                /\ calls' = history
                /\ pc' = "return"
                /\ UNCHANGED <<w, log>>
    /\ UNCHANGED <<inputs, request, idx, registry>>
    /\ UNCHANGED sync

\* Mutant of ParseReturn: the body is closed on the success path only.
ParseReturn_ClosesOnSuccessOnly ==
    /\ pc = "return"
    /\ calls' = IF result.err = "" THEN Append(calls, [op |-> "Body.Close"])
                ELSE calls
    /\ result' = [result EXCEPT !.done = TRUE]
    /\ pc' = "handler"
    /\ UNCHANGED <<inputs, request, idx, w, log, registry>>
    /\ UNCHANGED sync

\* The deferred r.Body.Close(), then the return to the handler.
ParseReturn ==
    /\ pc = "return"
    /\ calls' = Append(calls, [op |-> "Body.Close"])
    /\ result' = [result EXCEPT !.done = TRUE]
    /\ pc' = "handler"
    /\ UNCHANGED <<inputs, request, idx, w, log, registry>>
    /\ UNCHANGED sync

(***************************************************************************)
(* The handler after ParseRequest: return on error, else send the target.  *)
(***************************************************************************)
\* Mutant of HandlerRespond: the handler does not return on an error.
HandlerRespond_AlwaysSends ==
    /\ pc = "handler"
    /\ LET data == GoStruct(result.val)
           io == SendResponse([w |-> w, log |-> log], StatusOK, data,
                              NilValue, NilValue)
       IN  /\ w' = io.w
           /\ log' = io.log
           /\ calls' = Append(calls, SendResponseCall(StatusOK, data,
                                                      NilValue, NilValue))
    /\ pc' = "done"
    /\ UNCHANGED <<inputs, request, idx, result, registry>>
    /\ UNCHANGED sync

HandlerRespond ==
    /\ pc = "handler"
    /\ IF result.err # ""
       THEN UNCHANGED <<w, log, calls>>
       ELSE LET data == GoStruct(result.val)
                io == SendResponse([w |-> w, log |-> log], StatusOK, data,
                                   NilValue, NilValue)
            IN  /\ w' = io.w
                /\ log' = io.log
                /\ calls' = Append(calls, SendResponseCall(StatusOK, data,
                                                           NilValue, NilValue))
    /\ pc' = "done"
    /\ UNCHANGED <<inputs, request, idx, result, registry>>
    /\ UNCHANGED sync

(***************************************************************************)
(* A handler that calls SendResponse directly.                             *)
(***************************************************************************)
DirectSend ==
    /\ pc = "idle"
    /\ \E code \in StatusCodes, data \in DataValues, problem \in ProblemValues,
          meta \in MetaValues, broken \in BOOLEAN :
        LET io == SendResponse([w |-> NewResponseWriter(broken), log |-> <<>>],
                               code, data, problem, meta)
        IN  /\ w' = io.w
            /\ log' = io.log
            /\ calls' = <<SendResponseCall(code, data, problem, meta)>>
    /\ body' = NoBody
    /\ extract' = NoExtractor
    /\ pathParams' = <<>>
    /\ request' = NilValue
    /\ idx' = 1
    /\ result' = NoResult
    /\ pc' = "done"
    /\ UNCHANGED registry
    /\ UNCHANGED sync

\* The request is over; the server waits for the next one.
HandlerDone ==
    /\ pc = "done"
    /\ pc' = "idle"
    /\ body' = NoBody
    /\ extract' = NoExtractor
    /\ pathParams' = <<>>
    /\ request' = NilValue
    /\ idx' = 1
    /\ result' = NoResult
    /\ w' = NewResponseWriter(FALSE)
    /\ log' = <<>>
    /\ calls' = <<>>
    /\ UNCHANGED registry
    /\ UNCHANGED sync

\* A caller validates a target: problem := IsRequestValid(request).
DirectValidate ==
    /\ pc = "idle"
    /\ \E target \in ValidationTargets :
          calls' = <<[op |-> "Validate", target |-> target,
                      problem |-> IsRequestValid(target)]>>
    /\ pc' = "done"
    /\ UNCHANGED <<inputs, request, idx, result, w, log, registry>>
    /\ UNCHANGED sync

\* A caller builds a problem: details := NewProblemDetails(status,
\* problemType, title, detail), the type left empty or resolved from the
\* registry as SendResponse does.
BuildProblem ==
    /\ pc = "idle"
    /\ \E status \in {StatusBadRequest, StatusNotFound},
          problemType \in {""} \cup {GetProblemTypeURL(e) : e \in ErrorTypes},
          title \in {"", "Not Found"}, detail \in {"", "Invalid input"} :
          calls' = <<[op |-> "NewProblemDetails", status |-> status,
                      problemType |-> problemType, title |-> title,
                      detail |-> detail,
                      details |-> NewProblemDetails(status, problemType,
                                                    title, detail)]>>
    /\ pc' = "done"
    /\ UNCHANGED <<inputs, request, idx, result, w, log, registry>>
    /\ UNCHANGED sync

(***************************************************************************)
(* Registry configuration.                                                 *)
(***************************************************************************)
SetProblemBaseURL ==
    /\ \E baseURL \in BaseURLs : problemBaseURL' = baseURL
    /\ UNCHANGED <<pc, inputs, request, idx, result, w, log, calls,
                   errorTypePaths>>
    /\ UNCHANGED sync

SetProblemErrorTypePath ==
    /\ \E a \in PathSettings :
          errorTypePaths' =
              [c \in DOMAIN errorTypePaths \cup {a.errorType} |->
                  IF c = a.errorType THEN a.path ELSE errorTypePaths[c]]
    /\ UNCHANGED <<pc, inputs, request, idx, result, w, log, calls,
                   problemBaseURL>>
    /\ UNCHANGED sync

\* Mutant of SetProblemErrorTypePaths: the map is replaced by the batch.
SetProblemErrorTypePaths_ReplacesMap ==
    /\ \E paths \in PathBatches : errorTypePaths' = paths
    /\ UNCHANGED <<pc, inputs, request, idx, result, w, log, calls,
                   problemBaseURL>>
    /\ UNCHANGED sync

\* for errorType, path := range paths { errorTypePaths[errorType] = path },
\* all of it between mu.Lock() and mu.Unlock().
SetProblemErrorTypePaths ==
    /\ \E paths \in PathBatches :
          errorTypePaths' =
              [c \in DOMAIN errorTypePaths \cup DOMAIN paths |->
                  IF c \in DOMAIN paths THEN paths[c] ELSE errorTypePaths[c]]
    /\ UNCHANGED <<pc, inputs, request, idx, result, w, log, calls,
                   problemBaseURL>>
    /\ UNCHANGED sync

\* A caller resolves a category: GetProblemTypeURL(errorType) on the registry
\* as it is, the returned string kept with the registry it was computed from.
ResolveProblemType ==
    /\ pc = "idle"
    /\ \E errorType \in ErrorTypes :
          calls' = <<[op |-> "GetProblemTypeURL", errorType |-> errorType,
                      baseURL |-> problemBaseURL, paths |-> errorTypePaths,
                      url |-> GetProblemTypeURL(errorType)]>>
    /\ pc' = "done"
    /\ UNCHANGED <<inputs, request, idx, result, w, log, registry>>
    /\ UNCHANGED sync

(***************************************************************************)
(* The registry under concurrent callers.  Each goroutine makes one        *)
(* registry call at a time; a call is a sequence of steps, one per lock    *)
(* operation or access to problemBaseURL / errorTypePaths.                 *)
(***************************************************************************)
ConfigCalls ==
    {[op |-> "SetProblemBaseURL", baseURL |-> b] : b \in BaseURLs}
    \cup {[op |-> "SetProblemErrorTypePath", errorType |-> a.errorType,
           path |-> a.path] : a \in PathSettings}
    \cup {[op |-> "SetProblemErrorTypePaths", paths |-> m] : m \in PathBatches}

\* The assignments a configuration call performs, by the key they write.
WritesOf(call) ==
    CASE call.op = "SetProblemBaseURL" -> {"baseURL"}
      [] call.op = "SetProblemErrorTypePath" -> {call.errorType}
      [] OTHER -> DOMAIN call.paths

PathWritten(call, key) ==
    IF call.op = "SetProblemErrorTypePath" THEN call.path ELSE call.paths[key]

RegistryNow == [baseURL |-> problemBaseURL, paths |-> errorTypePaths]

\* What a resolution of errorType depends on in a registry state.
ProjectOf(reg, errorType) ==
    [baseURL |-> reg.baseURL,
     path |-> IF errorType \in DOMAIN reg.paths THEN reg.paths[errorType]
              ELSE ""]

InGet(g) == g.pc = "readBase"

\* mu.Lock() of a configuration call: waits until the mutex is free.
ConfigLock(t) ==
    /\ goroutines[t].pc = "idle"
    /\ mu.writer = 0
    /\ mu.readers = {}
    /\ \E call \in ConfigCalls :
          goroutines' =
              [u \in Goroutines |->
                  IF u = t
                  THEN [pc |-> "locked", call |-> call,
                        todo |-> WritesOf(call)]
                  ELSE IF InGet(goroutines[u])
                  THEN [goroutines[u] EXCEPT !.dirty = TRUE]
                  ELSE goroutines[u]]
    /\ mu' = [mu EXCEPT !.writer = t]
    /\ lastResolved' = NoResolution
    /\ returned' = NoReturn
    /\ UNCHANGED <<pipeline, registry>>

\* One assignment of the call: problemBaseURL = baseURL, or
\* errorTypePaths[errorType] = path (the batch in map iteration order).
ConfigWrite(t) ==
    /\ goroutines[t].pc = "locked"
    /\ \E key \in goroutines[t].todo :
          /\ IF key = "baseURL"
             THEN /\ problemBaseURL' = goroutines[t].call.baseURL
                  /\ UNCHANGED errorTypePaths
             ELSE /\ errorTypePaths' =
                        [c \in DOMAIN errorTypePaths \cup {key} |->
                            IF c = key
                            THEN PathWritten(goroutines[t].call, key)
                            ELSE errorTypePaths[c]]
                  /\ UNCHANGED problemBaseURL
          /\ goroutines' =
                [u \in Goroutines |->
                    IF u = t THEN [goroutines[t] EXCEPT !.todo = @ \ {key}]
                    ELSE IF /\ InGet(goroutines[u])
                            /\ errorTypePaths'[goroutines[u].errorType]
                                   = goroutines[u].path
                    THEN [goroutines[u] EXCEPT
                             !.bases = @ \cup {problemBaseURL'}]
                    ELSE goroutines[u]]
    /\ UNCHANGED <<pipeline, mu, lastResolved, returned>>

\* The deferred mu.Unlock().
ConfigUnlock(t) ==
    /\ goroutines[t].pc = "locked"
    /\ goroutines[t].todo = {}
    /\ mu' = [mu EXCEPT !.writer = 0]
    /\ goroutines' = [goroutines EXCEPT ![t] = IdleGoroutine]
    /\ UNCHANGED <<pipeline, registry, lastResolved, returned>>

\* What the caller of GetProblemTypeURL gets back, with what the call saw:
\* bases are the base URLs that were in the registry together with the path
\* the call read, at some instant since it read it; dirty tells that a
\* configuration call was in progress at some instant of the call.
Return(g, url) ==
    /\ returned' = [errorType |-> g.errorType, path |-> g.path, url |-> url,
                    bases |-> g.bases, dirty |-> g.dirty]
    /\ lastResolved' =
          IF returned # NoReturn /\ ~returned.dirty
          THEN [errorType |-> returned.errorType, url |-> returned.url]
          ELSE lastResolved

\* Mutant of GetReadPath: a category that is not registered is registered
\* with an empty path by the lookup.
GetReadPath_RegistersUnknown(t) ==
    /\ goroutines[t].pc = "idle"
    /\ \E errorType \in ErrorTypes :
          LET path == ProjectOf(RegistryNow, errorType).path
              g == [pc |-> "readBase", errorType |-> errorType,
                    path |-> path,
                    bases |-> {problemBaseURL},
                    dirty |-> mu.writer # 0]
          IN  IF errorType \in DOMAIN errorTypePaths
              THEN /\ goroutines' = [goroutines EXCEPT ![t] = g]
                   /\ UNCHANGED <<lastResolved, returned, registry>>
              ELSE /\ Return(g, BlankUrl)
                   /\ errorTypePaths' =
                         [c \in DOMAIN errorTypePaths \cup {errorType} |->
                             IF c = errorType THEN "" ELSE errorTypePaths[c]]
                   /\ UNCHANGED <<goroutines, problemBaseURL>>
    /\ UNCHANGED <<pipeline, mu>>

\* GetProblemTypeURL(errorType) is entered without taking mu, and reads the
\* map: path, exists := errorTypePaths[errorType]; return BlankUrl if absent.
GetReadPath(t) ==
    /\ goroutines[t].pc = "idle"
    /\ \E errorType \in ErrorTypes :
          LET path == ProjectOf(RegistryNow, errorType).path
              g == [pc |-> "readBase", errorType |-> errorType,
                    path |-> path,
                    bases |-> {problemBaseURL},
                    dirty |-> mu.writer # 0]
          IN  IF errorType \in DOMAIN errorTypePaths
              THEN /\ goroutines' = [goroutines EXCEPT ![t] = g]
                   /\ UNCHANGED <<lastResolved, returned>>
              ELSE /\ Return(g, BlankUrl)
                   /\ UNCHANGED goroutines
    /\ UNCHANGED <<pipeline, registry, mu>>

\* return getProblemBaseURL() + path
GetReadBase(t) ==
    /\ goroutines[t].pc = "readBase"
    /\ Return(goroutines[t], getProblemBaseURL \o goroutines[t].path)
    /\ goroutines' = [goroutines EXCEPT ![t] = IdleGoroutine]
    /\ UNCHANGED <<pipeline, registry, mu>>

Next ==
    \/ HandlerStart
    \/ ParseDecode
    \/ ParseInit
    \/ ParseParam
    \/ ParseValidate
    \/ ParseReturn
    \/ HandlerRespond
    \/ DirectSend
    \/ DirectValidate
    \/ BuildProblem
    \/ HandlerDone
    \/ SetProblemBaseURL
    \/ SetProblemErrorTypePath
    \/ SetProblemErrorTypePaths
    \/ ResolveProblemType

Spec == Init /\ [][Next]_vars

ConcurrentNext ==
    \E t \in Goroutines :
        \/ ConfigLock(t)
        \/ ConfigWrite(t)
        \/ ConfigUnlock(t)
        \/ GetReadPath(t)
        \/ GetReadBase(t)

ConcurrentSpec == Init /\ [][ConcurrentNext]_vars

(***************************************************************************)
(* Views of the history used by the properties.                            *)
(***************************************************************************)
CallsOf(op) == SelectSeq(calls, LAMBDA c : c.op = op)
EventsOf(op) == SelectSeq(w.events, LAMBDA e : e.op = op)
SendCalls == CallsOf("SendResponse")
InParse == pc \in {"decode", "init", "params", "validate"}
Returning == pc \in {"return", "handler"}
KeysOf(cs) == [j \in 1..Len(cs) |-> cs[j].key]
Prefix(p, n) == [j \in 1..n |-> p[j]]

(***************************************************************************)
(* C1: on every failure path of ParseRequest exactly one response has been *)
(* written through SendResponse by the time ParseRequest returns its       *)
(* error, and on the success path (and while its stages still run)         *)
(* ParseRequest has written nothing.                                       *)
(***************************************************************************)
C1_OneResponsePerFailure ==
    /\ InParse => Len(SendCalls) = 0 /\ w.events = <<>>
    /\ Returning /\ result.err # "" =>
          /\ Len(SendCalls) = 1
          /\ Len(EventsOf("WriteHeader")) = 1
          /\ w.status # 0
          /\ \A j \in 1..Len(calls) :
                calls[j].op = "Body.Close" =>
                    \E i \in 1..(j - 1) : calls[i].op = "SendResponse"
    /\ Returning /\ result.err = "" =>
          Len(SendCalls) = 0 /\ w.events = <<>> /\ w.status = 0

C1_Witness ==
    /\ pc = "handler"
    /\ result.err = "validation error"
    /\ Len(SendCalls) = 1
    /\ w.status = StatusBadRequest

(***************************************************************************)
(* C2: ParseRequest runs body decode, then extraction and assignment of    *)
(* the path parameters in list order, then validation, and stops at the    *)
(* first failing stage: nothing runs after a response was sent, no         *)
(* extractor call follows a decode failure, and validation runs only when  *)
(* every listed parameter was extracted non-empty and assigned.            *)
(***************************************************************************)
StageRank(op) ==
    CASE op = "Decode" -> 1
      [] op = "paramExtractor" -> 2
      [] op = "SetParam" -> 2
      [] op = "IsRequestValid" -> 3
      [] op = "SendResponse" -> 4
      [] OTHER -> 5

C2_StagesInOrder ==
    pc \notin {"idle", "done"} =>
        LET ext == CallsOf("paramExtractor")
            set == CallsOf("SetParam")
        IN  /\ \A i, j \in 1..Len(calls) :
                  i < j => StageRank(calls[i].op) <= StageRank(calls[j].op)
            /\ Len(CallsOf("Decode")) <= 1
            /\ Len(CallsOf("IsRequestValid")) <= 1
            /\ pc # "decode" => (Len(CallsOf("Decode")) = 1 <=> body # NoBody)
            \* extraction and assignment alternate, in the order of pathParams
            /\ Len(ext) <= Len(pathParams)
            /\ KeysOf(ext) = Prefix(pathParams, Len(ext))
            /\ Len(set) \in {Len(ext), Len(ext) - 1}
            /\ KeysOf(set) = Prefix(pathParams, Len(set))
            /\ \A j \in 1..Len(calls) :
                  calls[j].op = "SetParam" =>
                      /\ j > 1
                      /\ calls[j - 1].op = "paramExtractor"
                      /\ calls[j - 1].key = calls[j].key
                      /\ calls[j].value = extract[calls[j].key]
            \* first failure stops the pipeline
            /\ body.kind \in {"Empty", "Malformed", "TypeMismatch"} =>
                  Len(ext) = 0 /\ Len(set) = 0 /\ Len(CallsOf("IsRequestValid")) = 0
            /\ Len(CallsOf("IsRequestValid")) = 1 =>
                  /\ Len(set) = Len(pathParams)
                  /\ \A n \in 1..Len(pathParams) :
                        /\ extract[pathParams[n]] # <<>>
                        /\ ToLower(pathParams[n]) = "id" =>
                              Atoi(extract[pathParams[n]]).ok

C2_Witness ==
    /\ pc = "handler"
    /\ Len(pathParams) = 2
    /\ Len(CallsOf("Decode")) = 1
    /\ Len(CallsOf("SetParam")) = 2
    /\ Len(CallsOf("IsRequestValid")) = 1
    /\ result.err = ""

(***************************************************************************)
(* C3: if the extractor returns the empty string for the name at position  *)
(* i of pathParams, SetParam is never invoked for that name nor at any     *)
(* later position, and once the extractor has returned it SetParam has     *)
(* been invoked exactly once, in list order, for each name before i.       *)
(***************************************************************************)
C3_MissingParamShortCircuit ==
    \A i \in 1..Len(pathParams) :
        extract[pathParams[i]] = <<>> =>
            LET set == CallsOf("SetParam")
            IN  /\ Len(set) < i
                /\ \A j \in 1..Len(set) : set[j].key # pathParams[i]
                /\ Len(CallsOf("paramExtractor")) >= i =>
                      /\ Len(CallsOf("paramExtractor")) = i
                      /\ KeysOf(set) = Prefix(pathParams, i - 1)

C3_Witness ==
    /\ pc = "handler"
    /\ pathParams = <<"ID", "name">>
    /\ extract["ID"] # <<>>
    /\ extract["name"] = <<>>
    /\ KeysOf(CallsOf("SetParam")) = <<"ID">>
    /\ result.err = "missing parameter: name"

\* The example of the specification: an empty "ID" first, "name" never assigned.
C3_ExampleReached ==
    /\ pc = "handler"
    /\ pathParams = <<"ID", "name">>
    /\ extract["ID"] = <<>>
    /\ CallsOf("SetParam") = <<>>

(***************************************************************************)
(* Views of one SendResponse invocation.  A writer receives at most one    *)
(* invocation per request, so the writer shows that invocation's effect.   *)
(***************************************************************************)
ProblemBranch(c) == c.code >= 400 /\ c.problem # NilValue
ProblemEncodes(c) == EncodeProblem(c.problem).err = ""
EnvelopeEncodes(c) == Encodable(c.data)
Writes == EventsOf("Write")
IsProblemShape(b) == {"type", "title", "status"} \subseteq DOMAIN b
IsEnvelopeShape(b) == DOMAIN b \subseteq {"data", "meta"}
Sent(c) == Len(SendCalls) = 1 /\ c = SendCalls[1]

(***************************************************************************)
(* C4 (as amended): when SendResponse is called with statusCode >= 400 and *)
(* a non-nil problem it sets Content-Type application/problem+json and     *)
(* writes the transport status problem.Status whatever statusCode is; the  *)
(* body is the problem as JSON whenever the problem can be encoded, and    *)
(* no body at all (a log line) when it cannot.  Every ProblemDetails body  *)
(* ever written carries a status field equal to the transport status.     *)
(***************************************************************************)
C4_ProblemStatusIsTransportStatus ==
    /\ \A j \in 1..Len(SendCalls) :
          LET c == SendCalls[j]
          IN  ProblemBranch(c) =>
                /\ w.header = ProblemContentType
                /\ w.status = c.problem.Status
                /\ EventsOf("WriteHeader") =
                       <<[op |-> "WriteHeader", code |-> c.problem.Status]>>
                /\ IF ProblemEncodes(c)
                   THEN /\ Len(Writes) = 1
                        /\ IsProblemShape(Writes[1].body)
                        /\ Writes[1].body["type"] = GoString(c.problem.Type)
                        /\ Writes[1].body["title"] = GoString(c.problem.Title)
                        /\ Writes[1].body["status"] = GoInt(c.problem.Status)
                   ELSE /\ Len(Writes) = 0
                        /\ log = <<LogEncodeProblem>>
    /\ \A j \in 1..Len(Writes) :
          IsProblemShape(Writes[j].body) =>
              Writes[j].body["status"] = GoInt(w.status)

\* The claim as stated: the problem branch always writes the problem as JSON.
C4_Original ==
    \A j \in 1..Len(SendCalls) :
        LET c == SendCalls[j]
        IN  ProblemBranch(c) =>
              /\ w.header = ProblemContentType
              /\ w.status = c.problem.Status
              /\ Len(Writes) = 1
              /\ IsProblemShape(Writes[1].body)
              /\ Writes[1].body["status"] = GoInt(w.status)

C4_Witness ==
    \E c \in {SendResponseCall(StatusInternalServerError, NilValue,
                               NewProblemDetails(StatusNotFound, "", "Not Found",
                                   "The requested resource was not found"),
                               NilValue)} :
        /\ Sent(c)
        /\ w.status = StatusNotFound
        /\ Len(Writes) = 1
        /\ Writes[1].body["status"] = GoInt(StatusNotFound)

C6_MutualExclusivity ==
    \A j \in 1..Len(SendCalls) :
        LET c == SendCalls[j]
        IN  /\ ProblemBranch(c) =>
                \A n \in 1..Len(Writes) :
                    /\ ~IsEnvelopeShape(Writes[n].body)
                    /\ IsProblemShape(Writes[n].body)
            /\ ~ProblemBranch(c) /\ EnvelopeEncodes(c) =>
                /\ Len(Writes) = 1
                /\ ~IsProblemShape(Writes[1].body)
                /\ IsEnvelopeShape(Writes[1].body)
            /\ ~ProblemBranch(c) /\ ~EnvelopeEncodes(c) =>
                /\ Len(Writes) = 1
                /\ IsProblemShape(Writes[1].body)
                /\ Writes[1].body["status"] = GoInt(StatusInternalServerError)

\* The claim as stated.
C6_Original ==
    \A j \in 1..Len(SendCalls) :
        LET c == SendCalls[j]
        IN  /\ ProblemBranch(c) =>
                \A n \in 1..Len(Writes) : ~IsEnvelopeShape(Writes[n].body)
            /\ ~ProblemBranch(c) =>
                \A n \in 1..Len(Writes) : ~IsProblemShape(Writes[n].body)

C6_Witness ==
    /\ Len(SendCalls) = 1
    /\ SendCalls[1].code = StatusBadRequest
    /\ SendCalls[1].problem # NilValue
    /\ SendCalls[1].data = GoString("value")
    /\ Len(Writes) = 1
    /\ IsProblemShape(Writes[1].body)

(***************************************************************************)
(* C7 (as amended): every SendResponse invocation sets Content-Type, then  *)
(* writes the status line exactly once, then writes the body bytes at most *)
(* once, and sets neither header nor status afterwards; the body write is  *)
(* missing exactly when the invocation is given a ProblemDetails that      *)
(* cannot be encoded.                                                      *)
(***************************************************************************)
C7_OneOrderedWrite ==
    /\ Len(SendCalls) = 0 => w.events = <<>>
    /\ \A j \in 1..Len(SendCalls) :
          LET c == SendCalls[j]
              ev == w.events
          IN  /\ Len(ev) \in {2, 3}
              /\ ev[1].op = "Header.Set"
              /\ ev[2].op = "WriteHeader"
              /\ Len(ev) = 3 => ev[3].op = "Write"
              /\ Len(ev) = 2 <=> (ProblemBranch(c) /\ ~ProblemEncodes(c))
              /\ w.header = ev[1].ct
              /\ w.status = ev[2].code

\* The claim as stated: header, status and body, each exactly once.
C7_Original ==
    \A j \in 1..Len(SendCalls) :
        /\ Len(w.events) = 3
        /\ w.events[1].op = "Header.Set"
        /\ w.events[2].op = "WriteHeader"
        /\ w.events[3].op = "Write"

C7_Witness ==
    /\ Len(SendCalls) = 1
    /\ ~ProblemBranch(SendCalls[1])
    /\ ~EnvelopeEncodes(SendCalls[1])
    /\ Len(w.events) = 3
    /\ w.events[3].op = "Write"

(***************************************************************************)
(* C8: when encoding the success envelope fails, SendResponse writes a     *)
(* ProblemDetails with status 500 whose detail is the serialization error  *)
(* text (transport status 500, Content-Type application/problem+json);     *)
(* nothing of the intended envelope is written and the only status written *)
(* is 500; a failure to write the fallback is logged and the invocation    *)
(* still completes.                                                        *)
(***************************************************************************)
C8_SerializationFallback ==
    \A j \in 1..Len(SendCalls) :
        LET c == SendCalls[j]
        IN  ~ProblemBranch(c) /\ ~EnvelopeEncodes(c) =>
              /\ w.header = ProblemContentType
              /\ w.status = StatusInternalServerError
              /\ EventsOf("WriteHeader") =
                     <<[op |-> "WriteHeader",
                        code |-> StatusInternalServerError]>>
              /\ Len(Writes) = 1
              /\ ~IsEnvelopeShape(Writes[1].body)
              /\ Writes[1].body["status"] = GoInt(StatusInternalServerError)
              /\ Writes[1].body["title"] = GoString("Internal Server Error")
              /\ Writes[1].body["detail"] =
                     GoString("json: unsupported type: chan int")
              /\ log[1] = LogEncodeResponse
              /\ IF w.broken
                 THEN log = <<LogEncodeResponse, LogEncodeProblem>>
                      /\ w.body = <<>>
                 ELSE log = <<LogEncodeResponse>>
                      /\ w.body = <<Writes[1].body>>
              /\ pc = "done"

C8_Witness ==
    /\ Len(SendCalls) = 1
    /\ SendCalls[1].code = StatusOK
    /\ SendCalls[1].data = GoChan
    /\ w.broken
    /\ w.status = StatusInternalServerError
    /\ log = <<LogEncodeResponse, LogEncodeProblem>>
    /\ pc = "done"

(***************************************************************************)
(* C9: if decoding the request body fails, ParseRequest emits a            *)
(* ProblemDetails with status 400, title "Invalid Request" and detail      *)
(* equal to the decoder's error text, and returns the zero value of T      *)
(* with a non-nil error.                                                   *)
(***************************************************************************)
DecoderErrorText ==
    CASE body.kind = "Malformed" ->
           "invalid character 'i' looking for beginning of object key string"
      [] body.kind = "Empty" -> "EOF"
      [] body.kind = "TypeMismatch" ->
           "json: cannot unmarshal string into Go struct field TestRequest.id of type int"
      [] OTHER -> ""

C9_DecodeFailure ==
    pc \in {"return", "handler", "done"} /\ DecoderErrorText # "" =>
        /\ Len(SendCalls) = 1
        /\ SendCalls[1].code = StatusBadRequest
        /\ SendCalls[1].problem.Status = StatusBadRequest
        /\ SendCalls[1].problem.Title = "Invalid Request"
        /\ SendCalls[1].problem.Detail = DecoderErrorText
        /\ w.status = StatusBadRequest
        /\ w.header = ProblemContentType
        /\ Len(Writes) = 1
        /\ Writes[1].body["status"] = GoInt(400)
        /\ Writes[1].body["title"] = GoString("Invalid Request")
        /\ Writes[1].body["detail"] = GoString(DecoderErrorText)
        /\ result.val = NilValue
        /\ result.err # ""
        /\ result.err = DecoderErrorText

C9_Witness ==
    /\ pc = "handler"
    /\ body.kind = "TypeMismatch"
    /\ request # NilValue
    /\ result.val = NilValue
    /\ result.err # ""
    /\ w.status = StatusBadRequest
    /\ Len(Writes) = 1
    /\ Writes[1].body["title"] = GoString("Invalid Request")

(***************************************************************************)
(* C10: if the extractor returns the empty string for a name of            *)
(* pathParams, ParseRequest emits a ProblemDetails with status 400, title  *)
(* "Missing Parameter" and a detail naming the missing key, and returns a  *)
(* missing-parameter error naming that key.                                *)
(***************************************************************************)
MissingDetailFor(key) ==
    CASE key = "ID" -> "Parameter ID not found in request"
      [] key = "name" -> "Parameter name not found in request"
      [] OTHER -> ""

MissingErrorFor(key) ==
    CASE key = "ID" -> "missing parameter: ID"
      [] key = "name" -> "missing parameter: name"
      [] OTHER -> ""

C10_MissingParameter ==
    \A j \in 1..Len(calls) :
        calls[j].op = "paramExtractor" /\ extract[calls[j].key] = <<>> =>
            LET key == calls[j].key
            IN  /\ Len(SendCalls) = 1
                /\ calls[j + 1] = SendCalls[1]
                /\ SendCalls[1].code = StatusBadRequest
                /\ SendCalls[1].problem.Status = StatusBadRequest
                /\ SendCalls[1].problem.Title = "Missing Parameter"
                /\ SendCalls[1].problem.Detail = MissingDetailFor(key)
                /\ w.status = StatusBadRequest
                /\ w.header = ProblemContentType
                /\ Len(Writes) = 1
                /\ Writes[1].body["status"] = GoInt(400)
                /\ Writes[1].body["title"] = GoString("Missing Parameter")
                /\ Writes[1].body["detail"] = GoString(MissingDetailFor(key))
                /\ result.val = NilValue
                /\ result.err = MissingErrorFor(key)

C10_Witness ==
    /\ pc = "handler"
    /\ pathParams = <<"name", "ID">>
    /\ extract["name"] # <<>>
    /\ extract["ID"] = <<>>
    /\ result.err = "missing parameter: ID"
    /\ w.status = StatusBadRequest
    /\ Len(Writes) = 1
    /\ Writes[1].body["detail"] = GoString("Parameter ID not found in request")

(***************************************************************************)
(* C11: if SetParam returns an error for an extracted non-empty value,     *)
(* ParseRequest emits a ProblemDetails with status 500 and title           *)
(* "Parameter Error" whose extensions carry the underlying error text,     *)
(* returns that same error, and processes no further parameter.            *)
(***************************************************************************)
C11_ParameterError ==
    \A j \in 1..Len(calls) :
        (/\ calls[j].op = "SetParam"
         /\ ToLower(calls[j].key) = "id"
         /\ calls[j].value \in {<<"x">>}) =>
            /\ calls[j].value # <<>>
            /\ Len(SendCalls) = 1
            /\ calls[j + 1] = SendCalls[1]
            /\ SendCalls[1].code = StatusInternalServerError
            /\ SendCalls[1].problem.Status = StatusInternalServerError
            /\ SendCalls[1].problem.Title = "Parameter Error"
            /\ DOMAIN SendCalls[1].problem.Extensions = {"error"}
            /\ \A e \in DOMAIN SendCalls[1].problem.Extensions :
                  SendCalls[1].problem.Extensions[e] = GoString("invalid id")
            /\ w.status = StatusInternalServerError
            /\ w.header = ProblemContentType
            /\ Len(Writes) = 1
            /\ Writes[1].body["status"] = GoInt(500)
            /\ Writes[1].body["title"] = GoString("Parameter Error")
            /\ "extensions" \in DOMAIN Writes[1].body
            /\ \A e \in DOMAIN Writes[1].body \cap {"extensions"} :
                  Writes[1].body[e] =
                      GoStruct([x \in {"error"} |-> GoString("invalid id")])
            /\ result.val = NilValue
            /\ result.err = "invalid id"
            \* no further parameter: nothing is extracted or assigned afterwards
            /\ \A n \in (j + 1)..Len(calls) :
                  calls[n].op \notin {"paramExtractor", "SetParam",
                                      "IsRequestValid"}
            /\ Len(CallsOf("SetParam")) < Len(pathParams) =>
                  Len(CallsOf("paramExtractor")) = Len(CallsOf("SetParam"))

C11_Witness ==
    /\ pc = "handler"
    /\ pathParams = <<"ID", "name">>
    /\ extract["ID"] = <<"x">>
    /\ extract["name"] # <<>>
    /\ KeysOf(CallsOf("SetParam")) = <<"ID">>
    /\ result.err = "invalid id"
    /\ w.status = StatusInternalServerError
    /\ Len(Writes) = 1
    /\ Writes[1].body["extensions"].f["error"] = GoString("invalid id")

(***************************************************************************)
(* C12: if validation of the fully assembled target reports violations,    *)
(* ParseRequest emits a ProblemDetails with status 400, title              *)
(* "Validation Error", detail "One or more fields failed validation." and  *)
(* extensions carrying the structured field-error list, and returns a      *)
(* validation error.                                                       *)
(***************************************************************************)
FieldErrorEntry(field, message) ==
    GoStruct([field |-> GoString(field), message |-> GoString(message)])

\* The field-error list expected for a TestRequest, written out by hand.
ExpectedFieldErrors(req) ==
    (IF req.ID = 0
     THEN <<FieldErrorEntry("ID", "ID failed required validation")>>
     ELSE IF req.ID < 0
     THEN <<FieldErrorEntry("ID", "ID failed gt validation")>>
     ELSE <<>>)
    \o (IF req.Name = ""
        THEN <<FieldErrorEntry("Name", "Name failed required validation")>>
        ELSE <<>>)

C12_ValidationFailure ==
    (/\ Len(CallsOf("IsRequestValid")) = 1
     /\ (request.ID <= 0 \/ request.Name = "")) =>
        LET expected == GoSlice(ExpectedFieldErrors(request))
        IN  /\ Len(expected.items) >= 1
            /\ Len(SendCalls) = 1
            /\ calls[Len(CallsOf("Decode")) + 2 * Len(pathParams) + 2]
                   = SendCalls[1]
            /\ SendCalls[1].code = StatusBadRequest
            /\ SendCalls[1].problem.Status = StatusBadRequest
            /\ SendCalls[1].problem.Title = "Validation Error"
            /\ SendCalls[1].problem.Detail =
                   "One or more fields failed validation."
            /\ DOMAIN SendCalls[1].problem.Extensions = {"errors"}
            /\ \A e \in DOMAIN SendCalls[1].problem.Extensions :
                  SendCalls[1].problem.Extensions[e] = expected
            /\ w.status = StatusBadRequest
            /\ w.header = ProblemContentType
            /\ Len(Writes) = 1
            /\ Writes[1].body["status"] = GoInt(400)
            /\ Writes[1].body["title"] = GoString("Validation Error")
            /\ "detail" \in DOMAIN Writes[1].body
            /\ "extensions" \in DOMAIN Writes[1].body
            /\ \A e \in DOMAIN Writes[1].body \cap {"detail"} :
                  Writes[1].body[e] =
                      GoString("One or more fields failed validation.")
            /\ \A e \in DOMAIN Writes[1].body \cap {"extensions"} :
                  Writes[1].body[e] = GoStruct([x \in {"errors"} |-> expected])
            /\ result.val = NilValue
            /\ result.err = "validation error"

C12_Witness ==
    /\ pc = "handler"
    /\ body = NoBody
    /\ pathParams = <<"ID">>
    /\ extract["ID"] = <<"-", "5">>
    /\ request = [ID |-> -5, Name |-> ""]
    /\ result.err = "validation error"
    /\ w.status = StatusBadRequest
    /\ Len(Writes) = 1
    /\ Writes[1].body["title"] = GoString("Validation Error")
    /\ Len(Writes[1].body["extensions"].f["errors"].items) = 2

(***************************************************************************)
(* C13: for every registry configuration, the type of the validation       *)
(* failure ProblemDetails produced by IsRequestValid / ParseRequest is     *)
(* either the sentinel about:blank or the URI the registry currently       *)
(* resolves for validation_error.                                          *)
(***************************************************************************)
C13_ValidationTypeFromRegistry ==
    \A j \in 1..Len(SendCalls) :
        LET c == SendCalls[j]
        IN  (c.problem # NilValue /\ c.problem.Title = "Validation Error") =>
              /\ c.problem.Type \in {BlankUrl,
                                     GetProblemTypeURL("validation_error")}
              /\ \A n \in 1..Len(Writes) :
                    Writes[n].body["type"] \in
                        {GoString(BlankUrl),
                         GoString(GetProblemTypeURL("validation_error"))}

(***************************************************************************)
(* C14: round trip.  Whenever the body decodes (or is absent), every       *)
(* listed path parameter is present and assignable, and no constraint is   *)
(* violated, ParseRequest returns a nil error and a target equal to the    *)
(* object built by hand from the same inputs: the body's fields, then each *)
(* listed path parameter applied through SetParam.                         *)
(***************************************************************************)
\* The decimal strings among the parameter values, read by hand.
IsNumber(v) == v \in {<<"7">>, <<"0">>, <<"-", "5">>, <<"1", "2">>}

NumberOf(v) ==
    CASE v = <<"7">> -> 7
      [] v = <<"0">> -> 0
      [] v = <<"-", "5">> -> 0 - 5
      [] v = <<"1", "2">> -> 12
      [] OTHER -> 0

Listed(name) == \E i \in 1..Len(pathParams) : pathParams[i] = name

HandBuilt ==
    [ID |-> IF Listed("ID") THEN NumberOf(extract["ID"])
            ELSE IF body.kind = "Object" THEN body.id ELSE 0,
     Name |-> IF body.kind = "Object" THEN body.name ELSE ""]

RoundTripInputs ==
    /\ body.kind \in {"NoBody", "Null", "Object"}
    /\ \A i \in 1..Len(pathParams) : extract[pathParams[i]] # <<>>
    /\ Listed("ID") => IsNumber(extract["ID"])
    /\ HandBuilt.ID > 0
    /\ HandBuilt.Name # ""

C14_RoundTrip ==
    result.done =>
        /\ RoundTripInputs => result.err = "" /\ result.val = HandBuilt
        /\ result.err = "" => RoundTripInputs /\ result.val = HandBuilt

C14_Witness ==
    /\ pc = "handler"
    /\ body = [kind |-> "Object", id |-> 0, name |-> "Test"]
    /\ pathParams = <<"ID">>
    /\ extract["ID"] = <<"1", "2">>
    /\ result.done
    /\ result.err = ""
    /\ result.val = [ID |-> 12, Name |-> "Test"]

(***************************************************************************)
(* C15: ParseRequest returns a non-nil target if and only if it returns a  *)
(* nil error: on every failure path the returned target is the zero value  *)
(* of T, never the partially populated object, and on success it is the    *)
(* populated target.                                                       *)
(***************************************************************************)
C15_TargetIffNoError ==
    /\ result.done => (result.val # NilValue <=> result.err = "")
    /\ Returning /\ result.err # "" => result.val = NilValue
    /\ Returning /\ result.err = "" =>
          /\ result.val = request
          /\ request # NilValue
          /\ Len(CallsOf("IsRequestValid")) = 1
          /\ Len(CallsOf("SetParam")) = Len(pathParams)

C15_Witness ==
    /\ pc = "handler"
    /\ result.done
    /\ body.kind = "Object"
    /\ pathParams = <<"ID", "name">>
    /\ extract["ID"] = <<"7">>
    /\ extract["name"] = <<>>
    /\ request = [ID |-> 7, Name |-> "Test"]
    /\ result.val = NilValue
    /\ result.err = "missing parameter: name"

(***************************************************************************)
(* C16: for a handler that follows the documented protocol (ParseRequest;  *)
(* on an error return without writing; otherwise SendResponse once), every *)
(* request ends with exactly one body written to the transport: one        *)
(* ProblemDetails when ParseRequest failed, one success envelope when it   *)
(* succeeded, never both and never neither.                                *)
(***************************************************************************)
C16_OneBodyPerRequest ==
    pc = "done" /\ result.done =>
        /\ Len(SendCalls) = 1
        /\ Len(Writes) = 1
        /\ Len(EventsOf("WriteHeader")) = 1
        /\ Len(EventsOf("Header.Set")) = 1
        /\ IsProblemShape(Writes[1].body) # IsEnvelopeShape(Writes[1].body)
        /\ result.err # "" <=> IsProblemShape(Writes[1].body)
        /\ result.err = "" <=> IsEnvelopeShape(Writes[1].body)
        /\ result.err # "" =>
              /\ w.header = ProblemContentType
              /\ w.status \in {StatusBadRequest, StatusInternalServerError}
        /\ result.err = "" =>
              /\ w.header = JSONContentType
              /\ w.status = StatusOK
              /\ DOMAIN Writes[1].body = {"data"}
              /\ \A k \in DOMAIN Writes[1].body :
                    Writes[1].body[k] = GoStruct(result.val)
        /\ ~w.broken => w.body = <<Writes[1].body>>

C16_Witness ==
    /\ pc = "done"
    /\ result.done
    /\ result.err = ""
    /\ ~w.broken
    /\ w.status = StatusOK
    /\ Len(w.body) = 1
    /\ IsEnvelopeShape(w.body[1])
    /\ w.body[1]["data"] = GoStruct([ID |-> 7, Name |-> "Test"])

\* The other end of C16: a failed ParseRequest leaves one ProblemDetails.
C16_WitnessProblem ==
    /\ pc = "done"
    /\ result.done
    /\ result.err # ""
    /\ ~w.broken
    /\ Len(w.body) = 1
    /\ IsProblemShape(w.body[1])

(***************************************************************************)
(* C17: for any request whose body stream is empty, ParseRequest skips     *)
(* JSON decoding and never emits the "Invalid Request" decode error; it    *)
(* goes on to parameter assignment and validation on a zero-valued target, *)
(* so an empty body with a required field absent yields the 400            *)
(* "Validation Error" response.                                            *)
(***************************************************************************)
EmptyBodyStream == body.kind \in {"NoBody", "Empty"}

C17_EmptyBodySkipsDecode ==
    EmptyBodyStream /\ pc \in {"init", "params", "validate", "return",
                               "handler"} =>
        /\ Len(CallsOf("Decode")) = 0
        /\ \A j \in 1..Len(SendCalls) :
              SendCalls[j].problem.Title # "Invalid Request"
        /\ (pc = "handler" /\ Len(CallsOf("IsRequestValid")) = 1) =>
              /\ result.err = "validation error"
              /\ w.status = StatusBadRequest
              /\ Len(Writes) = 1
              /\ Writes[1].body["title"] = GoString("Validation Error")

(***************************************************************************)
(* C18: SetParam is never invoked on a nil target.  Whenever decoding      *)
(* leaves the target nil (no body present, or a body that decodes to a nil *)
(* reference such as JSON null) ParseRequest allocates a fresh zero-valued *)
(* instance before the first parameter assignment and before validation.   *)
(***************************************************************************)
C18_NeverNilTarget ==
    /\ pc \in {"params", "validate"} => request # NilValue
    /\ \A j \in 1..Len(calls) :
          calls[j].op \in {"SetParam", "IsRequestValid"} =>
              calls[j].target # NilValue
    /\ body.kind \in {"NoBody", "Null"} =>
          \A j \in 1..Len(calls) :
              (/\ calls[j].op \in {"SetParam", "IsRequestValid"}
               /\ \A i \in 1..(j - 1) : calls[i].op # "SetParam") =>
                  calls[j].target = [ID |-> 0, Name |-> ""]

C18_Witness ==
    /\ pc = "handler"
    /\ body.kind = "Null"
    /\ Len(CallsOf("Decode")) = 1
    /\ Len(CallsOf("SetParam")) = 2
    /\ CallsOf("SetParam")[1].target = [ID |-> 0, Name |-> ""]
    /\ Len(CallsOf("IsRequestValid")) = 1
    /\ CallsOf("IsRequestValid")[1].target # NilValue

(***************************************************************************)
(* C19: ParseRequest closes the request body stream exactly once on every  *)
(* path (success, decode failure, missing parameter, assignment failure,   *)
(* validation failure), and the close happens after the failure response,  *)
(* if any, has been written.                                               *)
(***************************************************************************)
Closes == CallsOf("Body.Close")

C19_BodyClosedOnce ==
    /\ (InParse \/ pc = "return") => Len(Closes) = 0
    /\ result.done =>
          /\ Len(Closes) = 1
          /\ \E j \in 1..Len(calls) :
                /\ calls[j].op = "Body.Close"
                \* everything ParseRequest did precedes the close
                /\ \A i \in 1..Len(calls) :
                      calls[i].op \in {"Decode", "paramExtractor", "SetParam",
                                       "IsRequestValid"} => i < j
                /\ result.err # "" =>
                      /\ j > 1
                      /\ calls[j - 1].op = "SendResponse"
                      /\ calls[j - 1].problem # NilValue
                      /\ w.status # 0
                /\ result.err = "" =>
                      \A i \in 1..(j - 1) : calls[i].op # "SendResponse"

C19_Witness ==
    /\ pc = "handler"
    /\ result.done
    /\ result.err = "invalid id"
    /\ Len(Closes) = 1
    /\ calls[Len(calls)].op = "Body.Close"
    /\ calls[Len(calls) - 1].op = "SendResponse"

(***************************************************************************)
(* C20: GetProblemTypeURL(category) returns, for a category present in the *)
(* registry, the effective base URL concatenated with that category's      *)
(* path, the effective base being the empty string while the base URL is   *)
(* the sentinel about:blank (with the defaults validation_error resolves   *)
(* to "/errors/validation-error"); for a category not in the registry it   *)
(* returns exactly about:blank, never a concatenation.                     *)
(***************************************************************************)
Resolutions == CallsOf("GetProblemTypeURL")

\* The expected strings, written out for the base URLs in use.
Concatenated(baseURL, path) ==
    CASE baseURL = "about:blank" -> path
      [] baseURL = "https://api.example.com" /\ path = "/errors/validation-error" ->
           "https://api.example.com/errors/validation-error"
      [] baseURL = "https://api.example.com" /\ path = "/errors/new-validation-error" ->
           "https://api.example.com/errors/new-validation-error"
      [] baseURL = "https://api.example.com" /\ path = "/errors/server-error" ->
           "https://api.example.com/errors/server-error"
      [] baseURL = "https://api.example.com" /\ path = "/errors/custom-error" ->
           "https://api.example.com/errors/custom-error"
      [] OTHER -> "?"

C20_WitnessUnknown ==
    /\ pc = "done"
    /\ Len(Resolutions) = 1
    /\ Resolutions[1].baseURL = "https://api.example.com"
    /\ Resolutions[1].errorType = "unknown_error"
    /\ Resolutions[1].url = "about:blank"

(***************************************************************************)
(* C21: with any number of concurrently running requests and configuration *)
(* calls, registry accesses are data-race free: no read of the registry by *)
(* GetProblemTypeURL ever overlaps a write by SetProblemBaseURL,           *)
(* SetProblemErrorTypePath or SetProblemErrorTypePaths, and no two writes  *)
(* overlap.                                                                *)
(***************************************************************************)
\* The next step of goroutine r reads problemBaseURL.
ReadsBaseNext(r) == goroutines[r].pc = "readBase"

\* Goroutine u is inside a configuration call that still assigns problemBaseURL.
WritesBaseNext(u) ==
    /\ goroutines[u].pc = "locked"
    /\ "baseURL" \in goroutines[u].todo

C21_RegistryRaceFree ==
    /\ \A r, u \in Goroutines : ~(ReadsBaseNext(r) /\ WritesBaseNext(u))
    /\ Cardinality({u \in Goroutines : goroutines[u].pc = "locked"}) <= 1

(***************************************************************************)
(* C22: the registry starts from the defaults (base URL about:blank and    *)
(* the four default categories) and is changed by the configuration calls  *)
(* alone: a step that changes it is a SetProblemBaseURL that stores the    *)
(* given string as it is and leaves the map alone, or a                    *)
(* SetProblemErrorTypePath(s) that sets exactly the named categories and   *)
(* leaves every other category and the base URL alone; every step of       *)
(* GetProblemTypeURL, NewProblemDetails, SendResponse and ParseRequest     *)
(* (the steps that move the handler or write to the history, the response  *)
(* or the log) leaves the registry unchanged.                              *)
(***************************************************************************)
Upserts(paths) ==
    /\ DOMAIN errorTypePaths' = DOMAIN errorTypePaths \cup DOMAIN paths
    /\ \A c \in DOMAIN errorTypePaths' :
          errorTypePaths'[c] =
              IF c \in DOMAIN paths THEN paths[c] ELSE errorTypePaths[c]

C22_ConfigurationStep ==
    \/ /\ \E baseURL \in BaseURLs : problemBaseURL' = baseURL
       /\ errorTypePaths' = errorTypePaths
    \/ /\ \E a \in PathSettings : Upserts([c \in {a.errorType} |-> a.path])
       /\ problemBaseURL' = problemBaseURL
    \/ /\ \E paths \in PathBatches : Upserts(paths)
       /\ problemBaseURL' = problemBaseURL

C22_RegistryFrame ==
    /\ registry = <<BlankUrl, DefaultErrorTypePaths>>
    /\ [][/\ registry' # registry =>
                C22_ConfigurationStep /\ pipeline' = pipeline
          /\ pipeline' # pipeline => registry' = registry]_vars

C22_Witness ==
    /\ problemBaseURL = "https://api.example.com"
    /\ DOMAIN errorTypePaths = DOMAIN DefaultErrorTypePaths \cup {"custom_error"}
    /\ errorTypePaths["validation_error"] = "/errors/new-validation-error"
    /\ errorTypePaths["server_error"] = DefaultErrorTypePaths["server_error"]
    /\ pc = "done"
    /\ Len(calls) = 1
    /\ calls[1].op = "SendResponse"

(***************************************************************************)
(* C23: idempotent registry resolution.  Two calls of GetProblemTypeURL    *)
(* with the same category, with no configuration call between them (none   *)
(* started since the earlier call was entered), return identical strings;  *)
(* the calls may be made by different goroutines and may overlap each      *)
(* other.  lastResolved is an earlier such call, returned the latest one.  *)
(***************************************************************************)
C23_IdempotentResolution ==
    (/\ returned # NoReturn
     /\ lastResolved # NoResolution
     /\ ~returned.dirty
     /\ lastResolved.errorType = returned.errorType)
        => returned.url = lastResolved.url

C23_Witness ==
    /\ returned # NoReturn
    /\ lastResolved # NoResolution
    /\ ~returned.dirty
    /\ lastResolved.errorType = "custom_error"
    /\ returned.errorType = "custom_error"
    /\ returned.url = "https://api.example.com/errors/custom-error"
    /\ lastResolved.url = returned.url

\* The same for a category that was never registered.
C23_WitnessUnknown ==
    /\ returned # NoReturn
    /\ ~returned.dirty
    /\ lastResolved = [errorType |-> "unknown_error", url |-> BlankUrl]
    /\ returned.errorType = "unknown_error"
    /\ problemBaseURL = "https://api.example.com"

(***************************************************************************)
(* Views of a direct validation call.                                      *)
(***************************************************************************)
Validations == CallsOf("Validate")

\* The field-level entries a result of IsRequestValid carries.
EntriesOf(problem) ==
    IF problem = NilValue \/ "errors" \notin DOMAIN problem.Extensions
    THEN <<>>
    ELSE problem.Extensions["errors"].items

IsStructTarget(target) == "k" \notin DOMAIN target

\* The constraints of TestValidationRequest a value violates, by field:
\* Name `required`, Age `required,min=18`.
ViolatedConstraints(target) ==
    (IF target.Name = "" THEN <<<<"Name", "required">>>> ELSE <<>>)
    \o (IF target.Age = 0 THEN <<<<"Age", "required">>>> ELSE <<>>)
    \o (IF target.Age < 18 THEN <<<<"Age", "min">>>> ELSE <<>>)

(***************************************************************************)
(* C24: IsRequestValid returns nil if and only if validation passed: a     *)
(* non-nil result carries at least one field-level violation entry, and a  *)
(* target that violates at least one constraint gets a non-nil result.     *)
(***************************************************************************)
C24_NilIffValid ==
    \A j \in DOMAIN Validations :
        LET call == Validations[j]
        IN  /\ call.problem # NilValue => Len(EntriesOf(call.problem)) >= 1
            /\ (/\ IsStructTarget(call.target)
                /\ ViolatedConstraints(call.target) # <<>>)
                   => call.problem # NilValue

\* The same, for struct targets only.
C24_NilIffValidOnStructs ==
    \A j \in DOMAIN Validations :
        LET call == Validations[j]
        IN  IsStructTarget(call.target) =>
              /\ call.problem # NilValue => Len(EntriesOf(call.problem)) >= 1
              /\ ViolatedConstraints(call.target) # <<>>
                    => call.problem # NilValue

(***************************************************************************)
(* C25 (as stated): on validation failure the report contains exactly one  *)
(* message per violated constraint, "<FieldName> failed <ConstraintName>   *)
(* validation"; a field that violates several of its constraints gets all  *)
(* of them, in encounter order, and fields come in declaration order.      *)
(***************************************************************************)
MessageFor(violation) ==
    FieldErrorEntry(violation[1],
                    violation[1] \o " failed " \o violation[2] \o " validation")

C25_Original ==
    \A j \in DOMAIN Validations :
        LET call == Validations[j]
            violated == IF IsStructTarget(call.target)
                        THEN ViolatedConstraints(call.target) ELSE <<>>
        IN  violated # <<>> =>
              EntriesOf(call.problem) =
                  [i \in 1..Len(violated) |-> MessageFor(violated[i])]

\* The first constraint each field of TestValidationRequest violates, fields
\* in declaration order.
FirstViolations(target) ==
    (IF target.Name = "" THEN <<<<"Name", "required">>>> ELSE <<>>)
    \o (IF target.Age = 0 THEN <<<<"Age", "required">>>>
        ELSE IF target.Age < 18 THEN <<<<"Age", "min">>>>
        ELSE <<>>)

(***************************************************************************)
(* C25 (amended): on validation failure the report contains exactly one    *)
(* message per field that violates at least one of its constraints,        *)
(* "<FieldName> failed <ConstraintName> validation", naming the first      *)
(* constraint of the field's declaration that the value violates; fields   *)
(* come in the declaration order of the object's fields.                   *)
(***************************************************************************)
C25_OneMessagePerField ==
    \A j \in DOMAIN Validations :
        LET call == Validations[j]
            first == IF IsStructTarget(call.target)
                     THEN FirstViolations(call.target) ELSE <<>>
        IN  first # <<>> =>
              EntriesOf(call.problem) =
                  [i \in 1..Len(first) |-> MessageFor(first[i])]

\* A zero Age under required,min=18 violates both and is reported once.
C25_Witness ==
    /\ Len(Validations) = 1
    /\ Validations[1].target = [Name |-> "Alice", Age |-> 0]
    /\ Len(ViolatedConstraints(Validations[1].target)) = 2
    /\ EntriesOf(Validations[1].problem) =
          <<FieldErrorEntry("Age", "Age failed required validation")>>

(***************************************************************************)
(* C26: when the constraint evaluation itself fails (the target is nil or  *)
(* not a struct, a tag is malformed), the failure propagates as a          *)
(* programmer error: the caller of IsRequestValid never gets a 400         *)
(* problem to send to the user for it, and never an empty report.          *)
(***************************************************************************)
C26_EvaluationFailurePropagates ==
    \A j \in DOMAIN Validations :
        LET call == Validations[j]
        IN  ~IsStructTarget(call.target) =>
              /\ call.problem # NilValue
              /\ call.problem.Status # StatusBadRequest

(***************************************************************************)
(* C27: validation aggregation.  Validating a target with two              *)
(* independently required fields that are both empty yields exactly two    *)
(* field entries, one per field, each with a non-empty message:            *)
(* validation does not stop at the first failing field.                    *)
(***************************************************************************)
C27_ValidationAggregation ==
    \A j \in DOMAIN Validations :
        LET call == Validations[j]
            entries == EntriesOf(call.problem)
        IN  call.target = [Name |-> "", Age |-> 0] =>
              /\ Len(entries) = 2
              /\ {entries[i].f.field.s : i \in DOMAIN entries} = {"Name", "Age"}
              /\ \A i \in DOMAIN entries : entries[i].f.message.s # ""

C27_Witness ==
    /\ Len(Validations) = 1
    /\ Validations[1].target = [Name |-> "", Age |-> 0]
    /\ Len(EntriesOf(Validations[1].problem)) = 2

(***************************************************************************)
(* C28 (as stated): NewProblemDetails(status, problemType, title, detail)  *)
(* returns a problem whose status, title and detail are the arguments and  *)
(* whose type is about:blank if and only if problemType is the empty       *)
(* string, and is the given problemType unchanged otherwise.               *)
(***************************************************************************)
Constructions == CallsOf("NewProblemDetails")

C28_Original ==
    \A j \in DOMAIN Constructions :
        LET call == Constructions[j]
        IN  /\ call.details.Status = call.status
            /\ call.details.Title = call.title
            /\ call.details.Detail = call.detail
            /\ call.details.Type = BlankUrl <=> call.problemType = ""
            /\ call.problemType # "" => call.details.Type = call.problemType

(***************************************************************************)
(* C28 (amended): status, title and detail are the arguments; the type is  *)
(* about:blank when problemType is the empty string and the given          *)
(* problemType unchanged otherwise (so it is also about:blank when         *)
(* about:blank itself is passed, as from an unregistered category).        *)
(***************************************************************************)
C28_TypeDefaultsToBlank ==
    \A j \in DOMAIN Constructions :
        LET call == Constructions[j]
        IN  /\ call.details.Status = call.status
            /\ call.details.Title = call.title
            /\ call.details.Detail = call.detail
            /\ call.problemType = "" => call.details.Type = BlankUrl
            /\ call.problemType # "" => call.details.Type = call.problemType

C28_Witness ==
    /\ Len(Constructions) = 1
    /\ Constructions[1].problemType = ""
    /\ Constructions[1].status = StatusNotFound
    /\ Constructions[1].title = "Not Found"
    /\ Constructions[1].details.Type = BlankUrl

C28_WitnessGiven ==
    /\ Len(Constructions) = 1
    /\ Constructions[1].problemType =
          "https://api.example.com/errors/validation-error"
    /\ Constructions[1].details.Type = Constructions[1].problemType

(***************************************************************************)
(* C29: under any interleaving of GetProblemTypeURL with concurrent        *)
(* configuration calls, the string returned for a known category is        *)
(* effectiveBase + path for a base URL and a path that were both in the    *)
(* registry at one single instant during the call, never a base URL of     *)
(* one registry state with the path of another.  returned.bases holds      *)
(* every base URL that was in the registry together with the path the      *)
(* call read, at an instant of the call.                                   *)
(***************************************************************************)
EffectiveBase(baseURL) == IF baseURL = BlankUrl THEN "" ELSE baseURL

C29_ConsistentSnapshot ==
    (returned # NoReturn /\ returned.path # "") =>
        \E baseURL \in returned.bases :
            returned.url = EffectiveBase(baseURL) \o returned.path

(***************************************************************************)
(* C30: when the JSON body and a path parameter both supply a value for    *)
(* the same field of the target (here ID, the field SetParam assigns), the *)
(* target that is validated and the target that is returned hold the path  *)
(* parameter's value: the assignment comes after decoding and overwrites   *)
(* the decoded value.  A field only the body supplies (Name) keeps the     *)
(* body's value.                                                           *)
(***************************************************************************)
BodyAndParamSupplyID ==
    /\ body.kind = "Object"
    /\ Listed("ID")

C30_ParamOverridesBody ==
    BodyAndParamSupplyID =>
        /\ \A j \in DOMAIN CallsOf("IsRequestValid") :
              LET target == CallsOf("IsRequestValid")[j].target
              IN  /\ target.ID = NumberOf(extract["ID"])
                  /\ target.Name = body.name
        /\ (result.done /\ result.err = "") =>
              /\ result.val.ID = NumberOf(extract["ID"])
              /\ result.val.Name = body.name

C30_Witness ==
    /\ pc = "handler"
    /\ body = [kind |-> "Object", id |-> 1, name |-> "Test"]
    /\ pathParams = <<"ID", "name">>
    /\ extract["ID"] = <<"7">>
    /\ extract["name"] = <<"B", "o", "b">>
    /\ Len(CallsOf("IsRequestValid")) = 1
    /\ CallsOf("IsRequestValid")[1].target = [ID |-> 7, Name |-> "Test"]
    /\ result = [done |-> TRUE, val |-> [ID |-> 7, Name |-> "Test"], err |-> ""]

====
